---- MODULE Spec2Model ----
(***************************************************************************)
(* A model of lattice.py: Lattice, LatticeMatrix, Parallelepiped and       *)
(* LatticeCrypto.  Each class has its own variable and its own             *)
(* specification; a call is modelled from its arguments (drawn in the      *)
(* initial state) to its return value or its exception.                    *)
(*                                                                         *)
(* Matrices are functions [0..n-1 -> [0..n-1 -> Int]], indexed from 0 as   *)
(* in the source.  Python values whose type matters are records            *)
(* [kind, num, den]: kind is the Python type name, num/den the value of a  *)
(* number (den = 1 for an int).                                            *)
(***************************************************************************)
EXTENDS Integers, Sequences, FiniteSets, TLC

VARIABLES lat, pts, gen, par, cry

vars == <<lat, pts, gen, par, cry>>

(***************************************************************************)
(* Bounds of the model (MaxCoord, MaxVec and MaxPoint are further down).   *)
(***************************************************************************)
MaxDim == 2
MaxShear == 1
MaxModulus == 3

(***************************************************************************)
(* Python values.                                                          *)
(***************************************************************************)
PyNone == [kind |-> "NoneType", num |-> 0, den |-> 1]
PyInt(n) == [kind |-> "int", num |-> n, den |-> 1]
PyFloat(n, d) == [kind |-> "float", num |-> n, den |-> d]
PyStr == [kind |-> "str", num |-> 0, den |-> 1]
PyComplex == [kind |-> "complex", num |-> 0, den |-> 1]
PyList == [kind |-> "list", num |-> 0, den |-> 1]

\* isinstance(x, int)
IsInt(x) == x.kind = "int"

\* x is not None
IsNotNone(x) == x.kind # "NoneType"

\* Python's x % m on integers: the result has the sign of the divisor m.
PyMod(x, m) == IF m > 0 THEN x % m ELSE -((-x) % (-m))

Idle == [pc |-> "idle"]

Abs(x) == IF x < 0 THEN -x ELSE x

(***************************************************************************)
(* Matrix helpers (sympy Matrix on exact integers).                        *)
(***************************************************************************)
Eye(n) == [i \in 0 .. n - 1 |-> [k \in 0 .. n - 1 |-> IF i = k THEN 1 ELSE 0]]

\* The minor of M (n x n) without row 0 and column c.
Minor(M, n, c) ==
    [i \in 0 .. n - 2 |->
        [k \in 0 .. n - 2 |-> M[i + 1][IF k < c THEN k ELSE k + 1]]]

RECURSIVE Det(_, _)
RECURSIVE DetExpand(_, _, _)
\* Matrix.det(): expansion along row 0; the empty matrix has determinant 1.
Det(M, n) == IF n = 0 THEN 1 ELSE DetExpand(M, n, 0)

DetExpand(M, n, c) ==
    IF c = n THEN 0
    ELSE (IF c % 2 = 0 THEN 1 ELSE -1) * M[0][c] * Det(Minor(M, n, c), n - 1)
         + DetExpand(M, n, c + 1)

(***************************************************************************)
(* Lattice.__init__(basis_matrix, modulus)                                 *)
(*                                                                         *)
(* The argument is a list of `rows` rows of `cols` entries: the entries of *)
(* the identity as ints, but for one entry, which is any Python value.     *)
(***************************************************************************)
\* The values an entry takes: ints, floats (0.5 and 1.0), 'a', None, 1j, [2].
EntryValues ==
    {PyInt(0), PyInt(2), PyFloat(1, 2), PyFloat(1, 1), PyStr, PyNone, PyComplex, PyList}

\* The values of the modulus argument: None, ints of either sign, 'a', 1.5.
ModulusValues ==
    {PyNone, PyStr, PyFloat(3, 2)} \cup {PyInt(v) : v \in -1 .. MaxModulus}

\* The entry check widened to complex numbers (a faulty variant of IsNumber).
IsNumberOrComplex(x) == x.kind \in {"int", "float", "complex"}

\* isinstance(x, (int, float))
IsNumber(x) == x.kind \in {"int", "float"}

\* modulus is None, or an int > 0
ModulusAccepted(modulus) ==
    IsNotNone(modulus) => (IsInt(modulus) /\ ~(modulus.num <= 0))

LatArgs ==
    {[rows |-> r, cols |-> c, modulus |-> m,
      basis_matrix |-> [i \in 0 .. r - 1 |-> [k \in 0 .. c - 1 |->
          IF <<i, k>> = pos THEN v ELSE PyInt(Eye(MaxDim)[i][k])]]] :
        r \in 1 .. MaxDim, c \in 1 .. MaxDim, m \in ModulusValues,
        pos \in (0 .. MaxDim - 1) \X (0 .. MaxDim - 1), v \in EntryValues}

LatInit == lat \in {[pc |-> "call", args |-> a, result |-> "none", error |-> "none"] : a \in LatArgs}

\* The constructor, from Matrix(basis_matrix) to the last check.  Matrix() keeps
\* an entry that is no number as an object or rejects it, depending on the
\* library: both are modelled.
LatConstruct ==
    /\ lat.pc = "call"
    /\ LET a == lat.args
           entries == {a.basis_matrix[i][k] : i \in 0 .. a.rows - 1, k \in 0 .. a.cols - 1}
       IN  \/ /\ \E x \in entries : x.kind \in {"NoneType", "list"}
              /\ lat' = [lat EXCEPT !.pc = "done", !.result = "error", !.error = "Matrix"]
           \/ lat' = [lat EXCEPT
                  !.pc = "done",
                  !.result = IF /\ a.rows = a.cols
                                /\ ModulusAccepted(a.modulus)
                                /\ \A x \in entries : IsNumber(x)
                             THEN "instance" ELSE "error",
                  !.error = IF a.rows # a.cols THEN "ValueError: square"
                            ELSE IF ~ModulusAccepted(a.modulus) THEN "ValueError: modulus"
                            ELSE IF ~(\A x \in entries : IsNumber(x))
                                 THEN "ValueError: numbers"
                            ELSE "none"]
    /\ UNCHANGED <<pts, gen, par, cry>>

LatticeInit == LatInit /\ pts = Idle /\ gen = Idle /\ par = Idle /\ cry = Idle

SpecLattice == LatticeInit /\ [][LatConstruct]_vars

LatEntries ==
    {lat.args.basis_matrix[i][k] : i \in 0 .. lat.args.rows - 1, k \in 0 .. lat.args.cols - 1}

LatSquareAndModulusOk ==
    /\ lat.args.rows = lat.args.cols
    /\ \/ lat.args.modulus = PyNone
       \/ lat.args.modulus.kind = "int" /\ lat.args.modulus.num >= 1

\* An integer, or a float of integral value such as 1.0
IsIntegral(x) == x.kind = "int" \/ (x.kind = "float" /\ x.den = 1)

MaxCoord == 1

SmallDims == 1 .. 2

RECURSIVE Grid(_, _)
\* list(range(lo, hi + 1)): empty when lo > hi
Grid(lo, hi) == IF lo > hi THEN <<>> ELSE <<lo>> \o Grid(lo + 1, hi)

RECURSIVE Prepend(_, _)
\* x put in front of every tuple of the sequence ts
Prepend(x, ts) ==
    IF ts = <<>> THEN <<>> ELSE <<(<<x>> \o Head(ts))>> \o Prepend(x, Tail(ts))

RECURSIVE Product(_)
RECURSIVE ProductFrom(_, _)
\* list(itertools.product(*grids)): the last grid varies fastest
Product(grids) ==
    IF grids = <<>> THEN << <<>> >> ELSE ProductFrom(Head(grids), Product(Tail(grids)))

ProductFrom(grid, rest) ==
    IF grid = <<>> THEN <<>> ELSE Prepend(Head(grid), rest) \o ProductFrom(Tail(grid), rest)

RECURSIVE RowTimes(_, _, _)
\* row . point, the columns from k on
RowTimes(row, point, k) ==
    IF k > Len(point) THEN 0 ELSE row[k - 1] * point[k] + RowTimes(row, point, k + 1)

\* tuple(basis_matrix * Matrix(point))
MatVec(basis_matrix, n, point) == [i \in 1 .. n |-> RowTimes(basis_matrix[i - 1], point, 1)]

\* The remainder that truncates towards zero, with the sign of the dividend (a
\* faulty variant of Reduce).
TruncRem(x, m) == IF x >= 0 THEN x % m ELSE -((-x) % m)

\* applyfunc(lambda x: x % self.modulus)
Reduce(x, m) == PyMod(x, m)

\* the points of generate_points, once the ranges are validated
Points(lattice, all_points) ==
    [k \in 1 .. Len(all_points) |->
        LET point == MatVec(lattice.basis_matrix, lattice.n, all_points[k])
        IN  IF IsNotNone(lattice.modulus) /\ lattice.modulus.num # 0
            THEN [i \in 1 .. lattice.n |-> Reduce(point[i], lattice.modulus.num)]
            ELSE point]

\* The bounds of a range: ints and the float 0.5.
CoordValues == {PyInt(v) : v \in -MaxCoord .. MaxCoord} \cup {PyFloat(1, 2)}

RangeValues == {[lo |-> lo, hi |-> hi] : lo \in CoordValues, hi \in CoordValues}

\* The entries of the basis matrices.
BasisEntries == {-1, 0, 2}

PtsLattices ==
    UNION {{[n |-> n, basis_matrix |-> B, modulus |-> m] :
                B \in [0 .. n - 1 -> [0 .. n - 1 -> BasisEntries]],
                m \in {PyNone, PyInt(1), PyInt(3)}} : n \in SmallDims}

PtsInit ==
    \E l \in PtsLattices, len \in SmallDims :
    \E rs \in [1 .. len -> RangeValues] :
        pts = [pc |-> "call", lattice |-> l, ranges |-> rs, error |-> "none",
               all_points |-> <<>>, points |-> <<>>]

\* range(r[0], r[1] + 1) takes ints only
RangeTakes(r) == IsInt(r.lo) /\ IsInt(r.hi)

\* isinstance(x, int) for both bounds, and r[0] <= r[1]
RangeValid(r) == IsInt(r.lo) /\ IsInt(r.hi) /\ r.lo.num <= r.hi.num

\* The whole of generate_points.
PtsGenerate ==
    /\ pts.pc = "call"
    /\ LET rs == pts.ranges
           grids == [k \in 1 .. Len(rs) |-> Grid(rs[k].lo.num, rs[k].hi.num)]
           all_points == Product(grids)
       IN  IF Len(rs) # pts.lattice.n
           THEN pts' = [pts EXCEPT !.pc = "done", !.error = "ValueError"]
           ELSE IF \E k \in 1 .. Len(rs) : ~RangeTakes(rs[k])
           THEN pts' = [pts EXCEPT !.pc = "done", !.error = "TypeError"]
           ELSE IF \E k \in 1 .. Len(rs) : ~RangeValid(rs[k])
           THEN pts' = [pts EXCEPT !.pc = "done", !.error = "ValueError",
                                   !.all_points = all_points]
           ELSE pts' = [pts EXCEPT !.pc = "done", !.all_points = all_points,
                                   !.points = Points(pts.lattice, all_points)]
    /\ UNCHANGED <<lat, gen, par, cry>>

PointsInit == lat = Idle /\ PtsInit /\ gen = Idle /\ par = Idle /\ cry = Idle

SpecPoints == PointsInit /\ [][PtsGenerate]_vars

PtsRangesValid ==
    /\ Len(pts.ranges) = pts.lattice.n
    /\ \A k \in 1 .. Len(pts.ranges) :
          /\ pts.ranges[k].lo.kind = "int" /\ pts.ranges[k].hi.kind = "int"
          /\ pts.ranges[k].lo.num <= pts.ranges[k].hi.num

\* The combination vectors: the Cartesian product of the intervals [lo_k, hi_k].
PtsCombinations ==
    {c \in [1 .. Len(pts.ranges) -> -MaxCoord .. MaxCoord] :
        \A k \in 1 .. Len(pts.ranges) :
            pts.ranges[k].lo.num <= c[k] /\ c[k] <= pts.ranges[k].hi.num}

RECURSIVE PtsWidths(_)
\* prod(hi_k - lo_k + 1) over the ranges from k on
PtsWidths(k) ==
    IF k > Len(pts.ranges) THEN 1
    ELSE (pts.ranges[k].hi.num - pts.ranges[k].lo.num + 1) * PtsWidths(k + 1)

RECURSIVE PtsCoordinate(_, _, _)
\* sum_j B[i][j] * c_j, over the columns j < upto (i and j counted from 0)
PtsCoordinate(i, c, upto) ==
    IF upto = 0 THEN 0
    ELSE PtsCoordinate(i, c, upto - 1) + pts.lattice.basis_matrix[i][upto - 1] * c[upto]

\* C3: for valid ranges, generate_points returns one entry per combination
\* vector c of the Cartesian product of the intervals (prod(hi_k - lo_k + 1)
\* entries, duplicates kept), and the entry for c is B*c; with a modulus m
\* every coordinate is B*c reduced by true modulo into [0, m), and with m = 1
\* every point is all zero.
C3_PointsAreImages ==
    (pts.pc = "done" /\ PtsRangesValid) =>
        /\ pts.error = "none"
        /\ Len(pts.points) = PtsWidths(1)
        /\ Len(pts.all_points) = Len(pts.points)
        /\ \A c \in PtsCombinations :
              Cardinality({k \in 1 .. Len(pts.all_points) : pts.all_points[k] = c}) = 1
        /\ \A k \in 1 .. Len(pts.points) :
              /\ pts.all_points[k] \in PtsCombinations
              /\ Len(pts.points[k]) = pts.lattice.n
              /\ \A i \in 1 .. pts.lattice.n :
                    LET x == pts.points[k][i]
                        image == PtsCoordinate(i - 1, pts.all_points[k], pts.lattice.n)
                    IN  IF pts.lattice.modulus = PyNone
                        THEN x = image
                        ELSE /\ 0 <= x /\ x < pts.lattice.modulus.num
                             /\ \E q \in -(Abs(image) + 1) .. Abs(image) + 1 :
                                    x = image + q * pts.lattice.modulus.num
                             /\ pts.lattice.modulus.num = 1 => x = 0

\* C3: points were generated under the modulus 3 from a negative image B*c,
\* and two combination vectors gave the same point.
C3_Witness ==
    /\ pts.pc = "done" /\ PtsRangesValid /\ pts.error = "none"
    /\ pts.lattice.n = 2
    /\ pts.lattice.modulus = PyInt(3)
    /\ \E k \in 1 .. Len(pts.points) :
          PtsCoordinate(0, pts.all_points[k], 2) < 0 /\ pts.points[k][1] > 0
    /\ \E k \in 1 .. Len(pts.points) : \E j \in 1 .. Len(pts.points) :
          k # j /\ pts.points[k] = pts.points[j]

\* C8: generate_points fails with ValueError, and returns no point, when the
\* number of ranges differs from the dimension, when a range has lo > hi and
\* when a range bound is not an integer.
C8_InvalidRangesValueError ==
    (pts.pc = "done" /\
        \/ Len(pts.ranges) # pts.lattice.n
        \/ \E k \in 1 .. Len(pts.ranges) :
              \/ pts.ranges[k].lo.kind # "int"
              \/ pts.ranges[k].hi.kind # "int"
              \/ (pts.ranges[k].lo.kind = "int" /\ pts.ranges[k].hi.kind = "int"
                    /\ pts.ranges[k].lo.num > pts.ranges[k].hi.num)) =>
        (pts.error = "ValueError" /\ pts.points = <<>>)

(***************************************************************************)
(* Parallelepiped(lattice, vectors) and contains_point(point)              *)
(*                                                                         *)
(* The spanning vectors are n vectors of n ints; a coordinate of the point *)
(* is an exact number num/den (an int, or a rational such as 1/2).         *)
(* linsolve is sympy's: exact Gauss-Jordan elimination of V*a - point,     *)
(* done here on integers, every value kept as a fraction num/den.          *)
(***************************************************************************)
MaxVec == 2
MaxPoint == 2

\* The vectors kept as rows (a faulty variant of Transpose).
NoTranspose(M, n) == M

\* Matrix(vectors).transpose()
Transpose(M, n) == [i \in 0 .. n - 1 |-> [k \in 0 .. n - 1 |-> M[k][i]]]

\* The equations vectors * a - point, as the rows [V[i][0..n-1] | point[i]]
\* with row i multiplied by the denominator of point[i].
Equations(V, n, point) ==
    [i \in 0 .. n - 1 |-> [k \in 0 .. n |->
        IF k < n THEN point[i + 1].den * V[i][k] ELSE point[i + 1].num]]

Least(S) == CHOOSE x \in S : \A y \in S : x <= y

RECURSIVE Rref(_, _, _, _, _)
\* Reduced row echelon form from column c and row r on; pivots lists the pivot
\* column of each row reduced so far.
Rref(A, n, c, r, pivots) ==
    IF c = n \/ r = n THEN [A |-> A, pivots |-> pivots]
    ELSE LET cands == {q \in r .. n - 1 : A[q][c] # 0}
         IN  IF cands = {} THEN Rref(A, n, c + 1, r, pivots)
             ELSE LET q == Least(cands)
                      S == [A EXCEPT ![r] = A[q], ![q] = A[r]]
                      E == [i \in 0 .. n - 1 |->
                              IF i = r \/ S[i][c] = 0 THEN S[i]
                              ELSE [k \in 0 .. n |->
                                       S[i][k] * S[r][c] - S[r][k] * S[i][c]]]
                  IN  Rref(E, n, c + 1, r + 1, Append(pivots, c))

\* linsolve(equations, symbols): "empty" (no solution), or one tuple with a
\* component per symbol: a number num/den, or an expression in the free
\* symbols (symbolic).
Linsolve(A, n) ==
    LET R == Rref(A, n, 0, 0, <<>>)
        rank == Len(R.pivots)
        pivotCols == {R.pivots[t] : t \in 1 .. rank}
        free == (0 .. n - 1) \ pivotCols
        Component(k) ==
            IF k \in free THEN [symbolic |-> TRUE, num |-> 0, den |-> 1]
            ELSE LET t == CHOOSE t \in 1 .. rank : R.pivots[t] = k
                     row == R.A[t - 1]
                 IN  [symbolic |-> \E f \in free : row[f] # 0,
                      num |-> row[n], den |-> row[k]]
    IN  IF \E i \in rank .. n - 1 : R.A[i][n] # 0
        THEN [empty |-> TRUE, solution |-> <<>>]
        ELSE [empty |-> FALSE, solution |-> [k \in 1 .. n |-> Component(k - 1)]]

\* 0 <= sol <= 1 for the number sol = num / den
InUnit(sol) ==
    IF sol.den > 0 THEN 0 <= sol.num /\ sol.num <= sol.den
    ELSE sol.den <= sol.num /\ sol.num <= 0

RECURSIVE AllInUnit(_, _)
\* all(0 <= sol <= 1 for sol in solution), from component k on: the
\* comparison of an expression with free symbols has no truth value
AllInUnit(solution, k) ==
    IF k > Len(solution) THEN "True"
    ELSE IF solution[k].symbolic THEN "TypeError"
    ELSE IF InUnit(solution[k]) THEN AllInUnit(solution, k + 1)
    ELSE "False"

\* The coordinates of a point: the multiples of 1/2 from -1/2 to MaxPoint + 1/2.
PointValues ==
    {[kind |-> IF h % 2 = 0 THEN "int" ELSE "Rational",
      num |-> IF h % 2 = 0 THEN h \div 2 ELSE h,
      den |-> IF h % 2 = 0 THEN 1 ELSE 2] : h \in -1 .. 2 * MaxPoint + 1}

ParInit ==
    \E n \in SmallDims, ln \in SmallDims :
    \E sp \in [0 .. n - 1 -> [0 .. n - 1 -> -1 .. MaxVec]], p \in [1 .. n -> PointValues] :
        par = [pc |-> "call", lattice_rows |-> ln, n |-> n, spanning |-> sp,
               vectors |-> <<>>, point |-> p, result |-> "none"]

\* Parallelepiped.__init__
ParConstruct ==
    /\ par.pc = "call"
    /\ LET vectors == Transpose(par.spanning, par.n)
       IN  IF par.n # par.lattice_rows
           THEN par' = [par EXCEPT !.pc = "done", !.result = "ValueError"]
           ELSE par' = [par EXCEPT !.pc = "built", !.vectors = vectors]
    /\ UNCHANGED <<lat, pts, gen, cry>>

\* Parallelepiped.contains_point
ParContainsPoint ==
    /\ par.pc = "built"
    /\ LET solution == Linsolve(Equations(par.vectors, par.n, par.point), par.n)
       IN  par' = [par EXCEPT
               !.pc = "done",
               !.result = IF solution.empty THEN "False"
                          ELSE AllInUnit(solution.solution, 1)]
    /\ UNCHANGED <<lat, pts, gen, cry>>

ParNext == ParConstruct \/ ParContainsPoint

ParaInit == lat = Idle /\ pts = Idle /\ gen = Idle /\ ParInit /\ cry = Idle

SpecPara == ParaInit /\ [][ParNext]_vars

\* The matrix V whose column i is spanning vector i, from the constructor's
\* argument.
ParV == [r \in 0 .. par.n - 1 |-> [i \in 0 .. par.n - 1 |-> par.spanning[i][r]]]

\* V with column i replaced by twice the point (Cramer's rule).
ParReplaced(i) ==
    [r \in 0 .. par.n - 1 |-> [k \in 0 .. par.n - 1 |->
        IF k = i THEN (2 \div par.point[r + 1].den) * par.point[r + 1].num
        ELSE ParV[r][k]]]

\* 0 <= a_i <= 1 for the solution a of V*a = point, a_i = N_i / D by Cramer's
\* rule with D = 2 * det(V).
ParCoefficientInUnit(i) ==
    LET D == 2 * Det(ParV, par.n)
        N == Det(ParReplaced(i), par.n)
    IN  \/ D > 0 /\ 0 <= N /\ N <= D
        \/ D < 0 /\ D <= N /\ N <= 0

ParAnswered == par.pc = "done" /\ par.n = par.lattice_rows

C5_SingularReturnsFalse ==
    (ParAnswered /\ Det(ParV, par.n) = 0) => par.result = "False"

(***************************************************************************)
(* LatticeCrypto(dimension, modulus), generate_keys() and generate_noise() *)
(***************************************************************************)
\* random_range = 5 * self.dimension
NoiseScale == 5

\* The values of the modulus argument: None and ints of either sign.
CryptoModuli == {PyNone, PyInt(-2), PyInt(0), PyInt(1), PyInt(3), PyInt(97)}

\* LatticeMatrix.generate_good_basis(dimension, modulus=None)
GoodBasis(dimension) == Eye(dimension)

\* generate_noise, for the drawn matrix noise_matrix: "if self.modulus" holds
\* for a modulus that is neither None nor 0
Noise(noise_matrix, dimension, modulus) ==
    IF IsNotNone(modulus) /\ modulus.num # 0
    THEN [i \in 0 .. dimension - 1 |-> [k \in 0 .. dimension - 1 |->
             PyMod(noise_matrix[i][k], modulus.num)]]
    ELSE noise_matrix

\* private_basis + noise
MatAdd(A, B, n) == [i \in 0 .. n - 1 |-> [k \in 0 .. n - 1 |-> A[i][k] + B[i][k]]]

CryInit ==
    \E d \in {0} \cup SmallDims, m \in CryptoModuli :
        cry = [pc |-> "call", dimension |-> d, modulus |-> m, error |-> "none",
               public_basis |-> <<>>, private_basis |-> <<>>]

\* LatticeCrypto.__init__: the dimension is checked, the modulus is stored
CryConstruct ==
    /\ cry.pc = "call"
    /\ IF cry.dimension <= 0
       THEN cry' = [cry EXCEPT !.pc = "done", !.error = "ValueError"]
       ELSE cry' = [cry EXCEPT !.pc = "built"]
    /\ UNCHANGED <<lat, pts, gen, par>>

\* LatticeCrypto.generate_keys
CryGenerateKeys ==
    /\ cry.pc = "built"
    /\ \E noise_matrix \in [0 .. cry.dimension - 1 -> [0 .. cry.dimension - 1 ->
               -(NoiseScale * cry.dimension) .. NoiseScale * cry.dimension]] :
           LET private_basis == GoodBasis(cry.dimension)
               noise == Noise(noise_matrix, cry.dimension, cry.modulus)
           IN  cry' = [cry EXCEPT
                   !.pc = "keys",
                   !.private_basis = private_basis,
                   !.public_basis = MatAdd(private_basis, noise, cry.dimension)]
    /\ UNCHANGED <<lat, pts, gen, par>>

CryNext == CryConstruct \/ CryGenerateKeys

CryptoInit == lat = Idle /\ pts = Idle /\ gen = Idle /\ par = Idle /\ CryInit

SpecCrypto == CryptoInit /\ [][CryNext]_vars

\* C2: with a modulus m >= 1, generate_keys returns the identity as the private
\* basis and a public basis whose every entry, the diagonal included, lies in
\* [0, m).
C2_PublicBasisReduced ==
    (cry.pc = "keys" /\ cry.modulus.kind = "int" /\ cry.modulus.num >= 1) =>
        /\ cry.private_basis = Eye(cry.dimension)
        /\ \A i \in 0 .. cry.dimension - 1 : \A k \in 0 .. cry.dimension - 1 :
              0 <= cry.public_basis[i][k] /\ cry.public_basis[i][k] < cry.modulus.num

\* C7: an instance of LatticeCrypto exists only with a positive dimension and a
\* modulus that is absent or a positive integer, so none with another modulus
\* reaches generate_keys.
C7_ModulusValidated ==
    cry.pc \in {"built", "keys"} =>
        /\ cry.dimension >= 1
        /\ cry.modulus = PyNone \/ (cry.modulus.kind = "int" /\ cry.modulus.num >= 1)

(***************************************************************************)
(* LatticeMatrix.generate_bad_basis(dimension, randomness_range, modulus)  *)
(***************************************************************************)
\* random.randint(-10, 9) bounds of the resampling without a modulus
ResampleLo == -10
ResampleHi == 9

\* random.sample(range(dimension), 2): two distinct indices, in either order
Sample2(dimension) ==
    {s \in (0 .. dimension - 1) \X (0 .. dimension - 1) : s[1] # s[2]}

RECURSIVE ShearColsScaled(_, _, _, _, _, _, _)
\* The shear with its operands swapped, shear_factor * row i + row j (a faulty
\* variant of ShearCols).
ShearColsScaled(M, dimension, i, j, shear_factor, modulus, k) ==
    IF k = dimension THEN M
    ELSE LET new_value == shear_factor * M[i][k] + M[j][k]
             stored == IF IsNotNone(modulus) THEN PyMod(new_value, modulus.num)
                       ELSE new_value
         IN  ShearColsScaled([M EXCEPT ![i][k] = stored], dimension, i, j,
                             shear_factor, modulus, k + 1)

RECURSIVE ShearCols(_, _, _, _, _, _, _)
\* for k in range(dimension): bad_matrix[i, k] is rewritten in place, reading
\* the current bad_matrix[j, k]
ShearCols(M, dimension, i, j, shear_factor, modulus, k) ==
    IF k = dimension THEN M
    ELSE LET new_value == M[i][k] + shear_factor * M[j][k]
             stored == IF IsNotNone(modulus) THEN PyMod(new_value, modulus.num)
                       ELSE new_value
         IN  ShearCols([M EXCEPT ![i][k] = stored], dimension, i, j,
                       shear_factor, modulus, k + 1)

\* The matrices the resampling can draw.
ResampleSpace(dimension, modulus) ==
    LET entries == IF IsNotNone(modulus)
                   THEN {PyMod(r, modulus.num) : r \in -modulus.num .. modulus.num - 1}
                   ELSE ResampleLo .. ResampleHi
    IN  [0 .. dimension - 1 -> [0 .. dimension - 1 -> entries]]

GenArgs ==
    {[dimension |-> d, lo |-> lo, hi |-> hi, modulus |-> m] :
        d \in 0 .. MaxDim, lo \in -MaxShear .. MaxShear, hi \in -MaxShear .. MaxShear,
        m \in {PyNone} \cup {PyInt(v) : v \in 1 .. MaxModulus}}

\* The calls with a randomness range of non-negative bounds (the default range
\* is (1, 10)) and no modulus or the modulus 1.
ShearArgs ==
    {a \in GenArgs : a.lo >= 0 /\ a.hi >= 0 /\ a.modulus \in {PyNone, PyInt(1)}}

GenCall(a) ==
    [pc |-> "validate", args |-> a, step |-> 0,
     bad_matrix |-> Eye(a.dimension), error |-> "none"]

GenInit == gen \in {GenCall(a) : a \in GenArgs}

ShearInit == gen \in {GenCall(a) : a \in ShearArgs}

\* The two argument checks.
GenValidate ==
    /\ gen.pc = "validate"
    /\ IF gen.args.dimension <= 0 \/ ~(gen.args.lo <= gen.args.hi)
       THEN gen' = [gen EXCEPT !.pc = "error", !.error = "ValueError"]
       ELSE gen' = [gen EXCEPT !.pc = "shear"]
    /\ UNCHANGED <<lat, pts, par, cry>>

\* One iteration of "for _ in range(dimension * 2)".
GenShearStep ==
    /\ gen.pc = "shear"
    /\ gen.step < 2 * gen.args.dimension
    /\ IF Sample2(gen.args.dimension) = {}
       THEN \* random.sample: the sample is larger than the population
            gen' = [gen EXCEPT !.pc = "error", !.error = "ValueError"]
       ELSE \E s \in Sample2(gen.args.dimension) :
            \E shear_factor \in gen.args.lo .. gen.args.hi :
                gen' = [gen EXCEPT
                    !.step = @ + 1,
                    !.bad_matrix = ShearCols(@, gen.args.dimension, s[1], s[2],
                                             shear_factor, gen.args.modulus, 0)]
    /\ UNCHANGED <<lat, pts, par, cry>>

\* The loop is over: the "while" is reached.
GenShearDone ==
    /\ gen.pc = "shear"
    /\ gen.step = 2 * gen.args.dimension
    /\ gen' = [gen EXCEPT !.pc = "while"]
    /\ UNCHANGED <<lat, pts, par, cry>>

\* One iteration of "while bad_matrix.det() not in [1, -1]".
GenResample ==
    /\ gen.pc = "while"
    /\ Det(gen.bad_matrix, gen.args.dimension) \notin {1, -1}
    /\ \E M \in ResampleSpace(gen.args.dimension, gen.args.modulus) :
           gen' = [gen EXCEPT !.bad_matrix = M]
    /\ UNCHANGED <<lat, pts, par, cry>>

\* return bad_matrix
GenReturn ==
    /\ gen.pc = "while"
    /\ Det(gen.bad_matrix, gen.args.dimension) \in {1, -1}
    /\ gen' = [gen EXCEPT !.pc = "done"]
    /\ UNCHANGED <<lat, pts, par, cry>>

GenNext == GenValidate \/ GenShearStep \/ GenShearDone \/ GenResample \/ GenReturn

BasisInit == lat = Idle /\ pts = Idle /\ par = Idle /\ cry = Idle /\ GenInit

SpecBasis == BasisInit /\ [][GenNext]_vars

ShearOnlyInit == lat = Idle /\ pts = Idle /\ par = Idle /\ cry = Idle /\ ShearInit

SpecShear == ShearOnlyInit /\ [][GenNext]_vars

GenValidArgs == gen.args.dimension >= 1 /\ gen.args.lo <= gen.args.hi

GenDet == Det(gen.bad_matrix, gen.args.dimension)

\* C1: with a positive dimension (1 included), a valid randomness range and no
\* modulus, generate_bad_basis never ends in an error and the matrix it returns
\* has determinant +1 or -1.
C1_BadBasisUnimodular ==
    (GenValidArgs /\ gen.args.modulus = PyNone) =>
        /\ gen.pc # "error"
        /\ gen.pc = "done" => GenDet \in {1, -1}

\* C9: with valid arguments (any positive modulus, 1 included) the call
\* terminates: whenever the resampling loop has to run, a matrix of determinant
\* +1 or -1 is among the matrices it can draw, so the loop can exit.
C9_ResampleLoopCanExit ==
    (GenValidArgs /\ gen.pc = "while" /\ GenDet \notin {1, -1}) =>
        \E M \in ResampleSpace(gen.args.dimension, gen.args.modulus) :
            Det(M, gen.args.dimension) \in {1, -1}

====
